---------------------------- MODULE Spec2Model ----------------------------
(***************************************************************************)
(* Model of beet_smart_cutoff: the transition finder, the filter-argument  *)
(* encoder of BeetCommand, and the interactive cutoff selector driven by   *)
(* main.                                                                   *)
(*                                                                         *)
(* Strings are sequences of one-character strings, so that split, lines,   *)
(* trim, to_lowercase and parse are computed character by character.       *)
(* Option<T> is None or Some(x); Result<T> is Ok(x) or Err(message).       *)
(***************************************************************************)
EXTENDS Integers, Sequences, FiniteSets, TLC

VARIABLES
    \* ---- the program (main, select_end, prompt_user_selection) ----
    pc,              \* position of main
    timeless_args,   \* Args.timeless_args
    max_entries,     \* Args.max_entries
    output_file_key, \* whether --output-file and --output-key are given
    beets,           \* Result of BeetCommand::new
    entries,         \* the list returned by query_timeless
    target_counts,   \* select_end: target_counts
    pass,            \* select_end: what the last pass printed, per target
    transitions,     \* select_end: transitions of the last pass
    date_entry,      \* main: Option<&DateEntry> returned by select_end
    issued,          \* argument lists handed to the process runner, in order
    query_results,   \* what query_timeless and count_entries_after returned, in order
    written,         \* dates written to the JSON store, in order
    notice,          \* what the prompt loop printed for the last line it read
    target_str,      \* prompt_user_selection: the custom-rank line, while in scope
    typed,           \* the ranks the user meant by that line (never read by the program)
    command,         \* prompt_user_selection: the Command matched for the last line
    exit_status,     \* None while running, Some(Ok/Err) once main returned
    \* ---- find_transition applied to drawn inputs ----
    items, target_count, found,
    \* ---- BeetCommand::new and new_list_command applied to drawn inputs ----
    fs_args, fs_extra, fs_build, fs_sets, fs_command,
    \* ---- DateEntry::try_from applied to drawn lines ----
    try_line, parsed,
    \* ---- the process runner and the two queries applied to drawn outputs ----
    output, take_limit, returned

mainVars == <<pc, timeless_args, max_entries, output_file_key, beets, entries,
              target_counts, pass, transitions, date_entry, issued, query_results,
              written, notice, target_str, typed, command, exit_status>>
findVars == <<items, target_count, found>>
filterVars == <<fs_args, fs_extra, fs_build, fs_sets, fs_command>>
parseVars == <<try_line, parsed>>
queryVars == <<output, take_limit, returned>>
vars == <<mainVars, findVars, filterVars, parseVars, queryVars>>

-----------------------------------------------------------------------------
(* Option and Result *)

None == [some |-> FALSE]
Some(x) == [some |-> TRUE, val |-> x]
Ok(x) == [ok |-> TRUE, val |-> x]
Err(m) == [ok |-> FALSE, err |-> m]

-----------------------------------------------------------------------------
(* Bounds of the model *)

\* longest entry list drawn for the program
MaxLen == 3
\* longest entry list drawn for find_transition alone
MaxItems == 4
\* largest target drawn for find_transition alone
MaxTarget == 4
\* most tokens on a custom-rank line
MaxCustomLen == 2
\* longest filter description drawn for the encoder
MaxArgsLen == 4
\* longest line, in characters, drawn for DateEntry::try_from
MaxLineLen == 22
\* length of the long entry lists drawn for the program
SampleLen == 35
\* most lines of a process output drawn for the queries
MaxLines == 3
\* largest max_entries drawn for the queries
MaxTake == 2
MaxTargets == 3

-----------------------------------------------------------------------------
(* DateEntry and Transition *)

DateEntry(d, e) == [date |-> d, entry |-> e]

Date3 == <<"2", "0", "2", "4", "-", "0", "1", "-", "0", "3">>
Date2 == <<"2", "0", "2", "4", "-", "0", "1", "-", "0", "2">>
Date1 == <<"2", "0", "2", "4", "-", "0", "1", "-", "0", "1">>
\* most recent first, the order `beet list ... added-` prints
DatesDescending == <<Date3, Date2, Date1>>

Transition(i, first, second) == [index |-> i, included |-> first, excluded |-> second]

\* the count that Display prints for the included entry: the 1-based rank
rank(transition) == transition.index + 1

\* find_map over items.windows(2).enumerate() from window `index` on;
\* window i of a Rust slice is (items[i], items[i+1]), here items[i+1], items[i+2]
RECURSIVE find_map(_, _)
find_map(list, index) ==
    IF index + 2 > Len(list) THEN None
    ELSE IF list[index + 1].date # list[index + 2].date
         THEN Some(Transition(index, list[index + 1], list[index + 2]))
         ELSE find_map(list, index + 1)

\* a finder that forgets .skip(target_count)
find_transition_noskip(list, target) == find_map(list, 0)

\* a finder that reports the window after the date change
find_transition_late(list, target) ==
    LET r == find_map(list, target)
    IN  IF r.some /\ r.val.index + 3 <= Len(list)
        THEN Some(Transition(r.val.index + 1, list[r.val.index + 2], list[r.val.index + 3]))
        ELSE r

\* a finder that starts over at the head of the list when nothing is left from
\* the target on
find_transition_wrapping(list, target) ==
    IF find_map(list, target).some THEN find_map(list, target) ELSE find_map(list, 0)

find_transition(list, target) == find_map(list, target)

-----------------------------------------------------------------------------
(* Idle values of the variable groups a specification does not use *)

IdleMain ==
    /\ pc = "Idle"
    /\ timeless_args = <<>>
    /\ max_entries = 0
    /\ output_file_key = FALSE
    /\ beets = None
    /\ entries = <<>>
    /\ target_counts = <<>>
    /\ pass = <<>>
    /\ transitions = <<>>
    /\ date_entry = None
    /\ issued = <<>>
    /\ query_results = <<>>
    /\ written = <<>>
    /\ notice = [msg |-> "", number |-> 0]
    /\ target_str = None
    /\ typed = None
    /\ command = None
    /\ exit_status = None

IdleFind ==
    /\ items = <<>>
    /\ target_count = 0
    /\ found = [called |-> FALSE]

IdleFilter ==
    /\ fs_args = <<>>
    /\ fs_extra = None
    /\ fs_build = "none"
    /\ fs_sets = None
    /\ fs_command = None

IdleParse ==
    /\ try_line = <<>>
    /\ parsed = [called |-> FALSE]

IdleQuery ==
    /\ output = None
    /\ take_limit = 0
    /\ returned = [by |-> "none"]

-----------------------------------------------------------------------------
(* find_transition on drawn inputs *)

FindDates == {Date2, Date1}
FindTexts == {<<"x">>, <<"y">>}
FindEntries == {DateEntry(d, e) : d \in FindDates, e \in FindTexts}
FindLists == UNION {[1..n -> FindEntries] : n \in 0..MaxItems}

InitFind ==
    /\ items \in FindLists
    /\ target_count \in 0..MaxTarget
    /\ found = [called |-> FALSE]
    /\ IdleMain
    /\ IdleFilter
    /\ IdleParse
    /\ IdleQuery

FindTransition ==
    /\ found = [called |-> FALSE]
    /\ found' = [called |-> TRUE, result |-> find_transition(items, target_count)]
    /\ UNCHANGED <<items, target_count, mainVars, filterVars, parseVars, queryVars>>

NextFind == FindTransition

SpecFind == InitFind /\ [][NextFind]_vars

\* pair indices i >= target_count whose two entries differ in date
DifferingPairs ==
    {i \in 0..(Len(items) - 2) : i >= target_count /\ items[i + 1].date # items[i + 2].date}

SmallestPair == CHOOSE i \in DifferingPairs : \A j \in DifferingPairs : i <= j

\* C1: find_transition(items, r) returns the transition at the smallest pair
\* index i >= r whose entries differ in date, with included = items[i],
\* excluded = items[i+1] and rank = i + 1; it returns no transition exactly
\* when no such i exists, which includes every list shorter than r + 2.
C1_FindsFirstDifferingPair ==
    found.called =>
        /\ (found.result = None) <=> (DifferingPairs = {})
        /\ Len(items) < target_count + 2 => found.result = None
        /\ found.result # None =>
            /\ found.result.val.index = SmallestPair
            /\ found.result.val.included = items[SmallestPair + 1]
            /\ found.result.val.excluded = items[SmallestPair + 2]
            /\ rank(found.result.val) = SmallestPair + 1

\* a transition was found past a pair of equal dates at the target
C1_Witness ==
    /\ found.called
    /\ found.result # None
    /\ found.result.val.index > target_count
    /\ target_count > 0

\* targets above the one drawn
LaterTargets == (target_count + 1)..(MaxTarget + 1)

\* C11: for every list and all targets a < b, when find_transition yields a
\* transition for both, the rank of the one for a is <= the rank of the one for b.
C11_MonotonicInTarget ==
    found.called =>
        \A b \in LaterTargets :
            LET for_b == find_transition(items, b)
            IN  (found.result.some /\ for_b.some) =>
                    rank(found.result.val) <= rank(for_b.val)

\* two targets of one list yield transitions of different ranks
C11_Witness ==
    /\ found.called
    /\ found.result.some
    /\ \E b \in LaterTargets :
           /\ find_transition(items, b).some
           /\ rank(found.result.val) < rank(find_transition(items, b).val)

-----------------------------------------------------------------------------
(* Strings: str::split, str::lines *)

\* position of the first `c` in `s`, 0 when there is none
RECURSIVE index_of(_, _, _)
index_of(s, c, from) ==
    IF from > Len(s) THEN 0
    ELSE IF s[from] = c THEN from
         ELSE index_of(s, c, from + 1)

\* str::split(sep): the pieces between separators; "" gives one empty piece
RECURSIVE split(_, _)
split(s, sep) ==
    LET i == index_of(s, sep, 1)
    IN  IF i = 0 THEN <<s>>
        ELSE <<SubSeq(s, 1, i - 1)>> \o split(SubSeq(s, i + 1, Len(s)), sep)

strip_cr(line) ==
    IF Len(line) > 0 /\ line[Len(line)] = "\r" THEN SubSeq(line, 1, Len(line) - 1) ELSE line

\* str::lines(): split at "\n", a final line needs no terminator, "" has no lines
RECURSIVE lines(_)
lines(s) ==
    IF s = <<>> THEN <<>>
    ELSE LET i == index_of(s, "\n", 1)
         IN  IF i = 0 THEN <<strip_cr(s)>>
             ELSE <<strip_cr(SubSeq(s, 1, i - 1))>> \o lines(SubSeq(s, i + 1, Len(s)))

RECURSIVE concat(_)
concat(seqs) == IF seqs = <<>> THEN <<>> ELSE Head(seqs) \o concat(Tail(seqs))

-----------------------------------------------------------------------------
(* BeetCommand::new: the FilterSpec (timeless_filter_sets) *)

filter_sets_of(args) ==
    LET pieces == split(args, ",")
    IN  [i \in 1..Len(pieces) |-> lines(pieces[i])]

IsNonEmptySet(elems) == elems # <<>>

\* main.rs: an empty group is an error
BeetCommand_new(args) ==
    LET sets == filter_sets_of(args)
    IN  IF \E i \in 1..Len(sets) : sets[i] = <<>>
        THEN Err("duplicate commas in timeless args")
        ELSE Ok(sets)

\* beet_command.rs: filter_map drops every empty group, nothing fails
lib_BeetCommand_new(args) == SelectSeq(filter_sets_of(args), IsNonEmptySet)

-----------------------------------------------------------------------------
(* BeetCommand::new_list_command: the filter-argument encoder *)

LIST == <<"l", "i", "s", "t">>
COMMA == <<",">>

\* split_last().expect("nonempty filter set") panics on an empty group
split_last_panics(sets, extra_filter) ==
    ~extra_filter.some /\ \E i \in 1..Len(sets) : sets[i] = <<>>

\* an encoder that puts the comma on the final group as well
filter_set_args_comma_always(sets, index, extra_filter) ==
    LET whole == sets[index + 1]
        filter_set == IF extra_filter.some THEN whole ELSE SubSeq(whole, 1, Len(whole) - 1)
        last == IF extra_filter.some THEN extra_filter.val ELSE whole[Len(whole)]
    IN  filter_set \o <<last \o COMMA>>

\* an encoder that lets the extra filter take the place of the final group's
\* last token and leaves the other groups as they are without it
filter_set_args_replacing(sets, index, extra_filter) ==
    LET whole == sets[index + 1]
        filter_set == SubSeq(whole, 1, Len(whole) - 1)
        last == IF extra_filter.some /\ index + 1 = Len(sets)
                THEN extra_filter.val ELSE whole[Len(whole)]
    IN  IF index + 1 = Len(sets)
        THEN filter_set \o <<last>>
        ELSE filter_set \o <<last \o COMMA>>

\* the arguments one pass of the for loop adds for sets[index + 1]
filter_set_args(sets, index, extra_filter) ==
    LET whole == sets[index + 1]
        filter_set == IF extra_filter.some THEN whole ELSE SubSeq(whole, 1, Len(whole) - 1)
        last == IF extra_filter.some THEN extra_filter.val ELSE whole[Len(whole)]
    IN  IF index + 1 = Len(sets)
        THEN filter_set \o <<last>>
        ELSE filter_set \o <<last \o COMMA>>

\* main.rs
new_list_command(sets, extra_filter) ==
    IF split_last_panics(sets, extra_filter)
    THEN [panicked |-> TRUE, args |-> <<>>]
    ELSE [panicked |-> FALSE,
          args |-> <<LIST>> \o
                   concat([i \in 1..Len(sets) |-> filter_set_args(sets, i - 1, extra_filter)])]

\* beet_command.rs: the same loop, and the extra filter alone when there is no group
lib_new_list_command(sets, extra_filter) ==
    IF extra_filter.some /\ sets = <<>>
    THEN [panicked |-> FALSE, args |-> <<LIST, extra_filter.val>>]
    ELSE new_list_command(sets, extra_filter)

-----------------------------------------------------------------------------
(* The constructor and the encoder on drawn inputs *)

FilterChars == {"a", "b", ",", "\n"}
\* the description of the test beet_command_filter_args: "a\nb\nc,d\ne,f\ng"
ArgsCompound == <<"a", "\n", "b", "\n", "c", ",", "d", "\n", "e", ",", "f", "\n", "g">>
FilterDescriptions ==
    UNION {[1..n -> FilterChars] : n \in 0..MaxArgsLen} \cup {ArgsCompound}
EXTRA == <<"e", "x", "t", "r", "a">>

InitFilter ==
    /\ fs_args \in FilterDescriptions
    /\ fs_extra \in {None, Some(EXTRA)}
    /\ fs_build = "none"
    /\ fs_sets = None
    /\ fs_command = None
    /\ IdleMain
    /\ IdleFind
    /\ IdleParse
    /\ IdleQuery

\* BeetCommand::new of main.rs
NewMain ==
    /\ fs_build = "none"
    /\ fs_build' = "main"
    /\ fs_sets' = Some(BeetCommand_new(fs_args))
    /\ UNCHANGED <<fs_args, fs_extra, fs_command, mainVars, findVars, parseVars, queryVars>>

\* BeetCommand::new of beet_command.rs, which cannot fail
NewLib ==
    /\ fs_build = "none"
    /\ fs_build' = "lib"
    /\ fs_sets' = Some(Ok(lib_BeetCommand_new(fs_args)))
    /\ UNCHANGED <<fs_args, fs_extra, fs_command, mainVars, findVars, parseVars, queryVars>>

ListCommandMain ==
    /\ fs_build = "main"
    /\ fs_sets.val.ok
    /\ fs_command = None
    /\ fs_command' = Some(new_list_command(fs_sets.val.val, fs_extra))
    /\ UNCHANGED <<fs_args, fs_extra, fs_build, fs_sets, mainVars, findVars, parseVars, queryVars>>

ListCommandLib ==
    /\ fs_build = "lib"
    /\ fs_command = None
    /\ fs_command' = Some(lib_new_list_command(fs_sets.val.val, fs_extra))
    /\ UNCHANGED <<fs_args, fs_extra, fs_build, fs_sets, mainVars, findVars, parseVars, queryVars>>

NextFilter == NewMain \/ NewLib \/ ListCommandMain \/ ListCommandLib

SpecFilter == InitFilter /\ [][NextFilter]_vars

\* the FilterSpec the constructor returned
BuiltSets == fs_sets.val.val

Encoded == fs_command.some /\ ~fs_command.val.panicked

\* the group's tokens, a comma appended to the last one when `more` groups follow
WithComma(group, more) ==
    IF more
    THEN [k \in 1..Len(group) |-> IF k = Len(group) THEN group[k] \o <<",">> ELSE group[k]]
    ELSE group

\* the group's tokens, all verbatim, then `token`, with a comma when `more` groups follow
FollowedBy(group, token, more) ==
    group \o <<IF more THEN token \o <<",">> ELSE token>>

\* C2 as stated: with an extra filter and one or more groups, the encoding is the
\* encoding without an extra filter except that the final group's last token is
\* replaced by the extra filter.
C2_ExtraReplacesFinalToken ==
    (Encoded /\ fs_extra.some /\ Len(BuiltSets) >= 1) =>
        LET plain == new_list_command(BuiltSets, None).args
        IN  fs_command.val.args = [plain EXCEPT ![Len(plain)] = fs_extra.val]

\* C2 amended: with an extra filter and one or more groups, no token of any group
\* is replaced: the encoding is "list", then for each group in order all of the
\* group's tokens verbatim followed by the extra filter, which carries a comma
\* after every group but the final one; the extra filter occurs once per group.
C2_ExtraFollowsEveryGroup ==
    (Encoded /\ fs_extra.some /\ Len(BuiltSets) >= 1) =>
        LET n == Len(BuiltSets)
        IN  fs_command.val.args =
                <<LIST>> \o concat([i \in 1..n |-> FollowedBy(BuiltSets[i], fs_extra.val, i < n)])

\* an extra filter was encoded with a FilterSpec of two groups or more
C2_Witness ==
    /\ Encoded
    /\ fs_extra.some
    /\ Len(BuiltSets) >= 2
    /\ fs_build = "main"

\* C3: with no extra filter and only non-empty groups, the encoding is "list"
\* followed by the tokens of every group in order, each verbatim, except that the
\* last token of every group but the final one has a single comma appended; the
\* description "a\nb\nc,d\ne,f\ng" encodes to list a b c, d e, f g.
C3_PlainEncoding ==
    (fs_command.some /\ ~fs_extra.some /\ \A i \in 1..Len(BuiltSets) : BuiltSets[i] # <<>>) =>
        LET n == Len(BuiltSets)
        IN  /\ ~fs_command.val.panicked
            /\ fs_command.val.args =
                   <<LIST>> \o concat([i \in 1..n |-> WithComma(BuiltSets[i], i < n)])
            /\ fs_args = ArgsCompound =>
                   fs_command.val.args =
                       <<LIST, <<"a">>, <<"b">>, <<"c", ",">>, <<"d">>, <<"e", ",">>,
                         <<"f">>, <<"g">>>>

\* the description of the test was encoded without an extra filter
C3_Witness ==
    /\ Encoded
    /\ ~fs_extra.some
    /\ fs_args = ArgsCompound
    /\ Len(BuiltSets) = 3

\* the description is empty or holds two consecutive commas
ProducesEmptyGroup ==
    \/ fs_args = <<>>
    \/ \E i \in 1..(Len(fs_args) - 1) : fs_args[i] = "," /\ fs_args[i + 1] = ","

\* C8: a description that produces an empty group ("" or two consecutive commas)
\* is rejected, never built with the group dropped, and every FilterSpec that
\* is built has only non-empty groups.
C8_EmptyGroupRejected ==
    fs_build # "none" =>
        /\ ProducesEmptyGroup => ~fs_sets.val.ok
        /\ fs_sets.val.ok => \A i \in 1..Len(BuiltSets) : BuiltSets[i] # <<>>

-----------------------------------------------------------------------------
(* Strings: trim, split_whitespace, to_lowercase, parse *)

is_whitespace(c) == c \in {" ", "\t", "\n", "\r"}

RECURSIVE trim_start(_)
trim_start(s) ==
    IF s # <<>> /\ is_whitespace(Head(s)) THEN trim_start(Tail(s)) ELSE s

RECURSIVE trim_end(_)
trim_end(s) ==
    IF s # <<>> /\ is_whitespace(s[Len(s)]) THEN trim_end(SubSeq(s, 1, Len(s) - 1)) ELSE s

trim(s) == trim_end(trim_start(s))

\* length of the run of non-whitespace characters at the head of s
RECURSIVE token_len(_)
token_len(s) ==
    IF s = <<>> \/ is_whitespace(Head(s)) THEN 0 ELSE 1 + token_len(Tail(s))

\* str::split_whitespace(): the non-empty runs of non-whitespace characters
RECURSIVE split_whitespace(_)
split_whitespace(s) ==
    LET t == trim_start(s)
        n == token_len(t)
    IN  IF t = <<>> THEN <<>>
        ELSE <<SubSeq(t, 1, n)>> \o split_whitespace(SubSeq(t, n + 1, Len(t)))

UpperCase == <<"A", "B", "C", "D", "E", "F", "G", "H", "I", "J", "K", "L", "M",
               "N", "O", "P", "Q", "R", "S", "T", "U", "V", "W", "X", "Y", "Z">>
LowerCase == <<"a", "b", "c", "d", "e", "f", "g", "h", "i", "j", "k", "l", "m",
               "n", "o", "p", "q", "r", "s", "t", "u", "v", "w", "x", "y", "z">>

to_lowercase_char(c) ==
    IF \E i \in 1..Len(UpperCase) : UpperCase[i] = c
    THEN LowerCase[CHOOSE i \in 1..Len(UpperCase) : UpperCase[i] = c]
    ELSE c

to_lowercase(s) == [i \in 1..Len(s) |-> to_lowercase_char(s[i])]

Digits == <<"0", "1", "2", "3", "4", "5", "6", "7", "8", "9">>
is_digit(c) == \E i \in 1..Len(Digits) : Digits[i] = c
digit_value(c) == (CHOOSE i \in 1..Len(Digits) : Digits[i] = c) - 1

RECURSIVE digits_value(_, _)
digits_value(s, acc) ==
    IF s = <<>> THEN acc ELSE digits_value(Tail(s), acc * 10 + digit_value(Head(s)))

\* usize::from_str: an optional "+", then one digit or more (the lines drawn here
\* have at most nine digits, so the value always fits a usize)
parse_usize(s) ==
    LET body == IF s # <<>> /\ Head(s) = "+" THEN Tail(s) ELSE s
    IN  IF body = <<>> THEN Err("cannot parse integer from empty string")
        ELSE IF \E i \in 1..Len(body) : ~is_digit(body[i])
             THEN Err("invalid digit found in string")
             ELSE Ok(digits_value(body, 0))

\* NonZeroUsize::from_str
parse_nonzero(s) ==
    LET r == parse_usize(s)
    IN  IF r.ok /\ r.val = 0 THEN Err("number would be zero for non-zero type") ELSE r

-----------------------------------------------------------------------------
(* Command and Prompt *)

Quit == [cmd |-> "Quit", number |-> 0]
Custom == [cmd |-> "Custom", number |-> 0]
Empty == [cmd |-> "Empty", number |-> 0]
Number(n) == [cmd |-> "Number", number |-> n]

STR_Q == <<"q">>
STR_QUIT == <<"q", "u", "i", "t">>
STR_EXIT == <<"e", "x", "i", "t">>
STR_C == <<"c">>
STR_CUSTOM == <<"c", "u", "s", "t", "o", "m">>

\* a classifier that compares the input as typed, without to_lowercase
Command_from_str_exact(s) ==
    IF s \in {STR_Q, STR_QUIT, STR_EXIT} THEN Ok(Quit)
    ELSE IF s \in {STR_C, STR_CUSTOM} THEN Ok(Custom)
    ELSE IF s = <<>> THEN Ok(Empty)
    ELSE IF parse_nonzero(s).ok THEN Ok(Number(parse_nonzero(s).val))
    ELSE Err("unrecognized command")

\* a classifier without the arm for the empty line
Command_from_str_no_empty(s) ==
    LET input == to_lowercase(s)
    IN  IF input \in {STR_Q, STR_QUIT, STR_EXIT} THEN Ok(Quit)
        ELSE IF input \in {STR_C, STR_CUSTOM} THEN Ok(Custom)
        ELSE IF parse_nonzero(input).ok THEN Ok(Number(parse_nonzero(input).val))
        ELSE Err("unrecognized command")

Command_from_str(s) ==
    LET input == to_lowercase(s)
    IN  IF input \in {STR_Q, STR_QUIT, STR_EXIT} THEN Ok(Quit)
        ELSE IF input \in {STR_C, STR_CUSTOM} THEN Ok(Custom)
        ELSE IF input = <<>> THEN Ok(Empty)
        ELSE IF parse_nonzero(input).ok THEN Ok(Number(parse_nonzero(input).val))
        ELSE Err("unrecognized command")

\* Prompt::read_line returns the trimmed buffer
read_line(line) == trim(line)

-----------------------------------------------------------------------------
(* prompt_user_selection: the custom-rank line *)

ErrNumber(m, n) == [ok |-> FALSE, err |-> m, number |-> n]

\* the closure of .map(|token| ...): parse, then compare with max_entries
custom_token(token, max) ==
    LET number == parse_usize(token)
    IN  IF ~number.ok THEN ErrNumber(number.err, 0)
        ELSE IF number.val > max
             THEN ErrNumber("exceeds max_entries command-line argument", number.val)
             ELSE Ok(number.val)

IsOk(r) == r.ok
IsErr(r) == ~r.ok

\* a collect that keeps the tokens that parsed and drops the others
collect_lenient(results) ==
    LET good == SelectSeq(results, IsOk)
    IN  Ok([i \in 1..Len(good) |-> good[i].val])

\* collect::<anyhow::Result<Vec<usize>>>(): the first error, or every value
collect(results) ==
    IF \E i \in 1..Len(results) : ~results[i].ok
    THEN Head(SelectSeq(results, IsErr))
    ELSE Ok([i \in 1..Len(results) |-> results[i].val])

new_counts_of(text, max) ==
    LET tokens == split_whitespace(text)
    IN  collect([i \in 1..Len(tokens) |-> custom_token(tokens[i], max)])

-----------------------------------------------------------------------------
(* select_end: one pass over target_counts *)

TARGET_COUNTS == <<30, 50, 70>>

\* a test that compares the target with the 1-based rank of the last transition
is_skipped_by_rank(prev_index, target) ==
    prev_index.some /\ prev_index.val + 1 >= target

\* a test that never skips a target
is_skipped_never(prev_index, target) ==
    FALSE

\* prev_index.is_some_and(|prev_index| prev_index >= target_count)
is_skipped(prev_index, target) ==
    prev_index.some /\ prev_index.val >= target

\* the filter_map closure applied to targets[k..], with the captured prev_index and
\* choice_index; each record is what the closure printed and returned for one target
RECURSIVE filter_map(_, _, _, _, _)
filter_map(list, targets, k, prev_index, choice_index) ==
    IF k > Len(targets) THEN <<>>
    ELSE IF is_skipped(prev_index, targets[k])
         THEN <<[target |-> targets[k], printed |-> "skipping target",
                 choice |-> 0, transition |-> None]>>
              \o filter_map(list, targets, k + 1, prev_index, choice_index)
         ELSE LET transition == find_transition(list, targets[k])
              IN  IF transition.some
                  THEN <<[target |-> targets[k], printed |-> "Breakpoint",
                          choice |-> choice_index, transition |-> transition]>>
                       \o filter_map(list, targets, k + 1,
                                     Some(transition.val.index), choice_index + 1)
                  ELSE <<[target |-> targets[k], printed |-> "out of range",
                          choice |-> 0, transition |-> None]>>
                       \o filter_map(list, targets, k + 1, prev_index, choice_index)

IsBreakpoint(r) == r.transition.some

\* a collect that lists the transitions last found first
collect_transitions_reversed(log) ==
    LET kept == SelectSeq(log, IsBreakpoint)
    IN  [i \in 1..Len(kept) |-> kept[Len(kept) + 1 - i].transition.val]

\* .collect(): the transitions the closure returned, in order
collect_transitions(log) ==
    LET kept == SelectSeq(log, IsBreakpoint)
    IN  [i \in 1..Len(kept) |-> kept[i].transition.val]

-----------------------------------------------------------------------------
(* What the user types *)

\* a line as stdin delivers it: the text typed and the line terminator
RawLine(text) == text \o <<"\n">>

RECURSIVE decimal(_)
decimal(n) ==
    IF n < 10 THEN <<Digits[n + 1]>> ELSE decimal(n \div 10) \o <<Digits[(n % 10) + 1]>>

\* the lines typed at the selection prompt, with what the user meant by each
TypedCommands ==
    {[kind |-> "quit", text |-> t, n |-> 0] :
        t \in {<<"q">>, <<" ", "Q", "U", "I", "T">>, <<"E", "x", "i", "t", " ">>}}
    \cup {[kind |-> "custom", text |-> t, n |-> 0] :
        t \in {<<"c">>, <<"C", "u", "s", "t", "o", "m">>}}
    \cup {[kind |-> "empty", text |-> t, n |-> 0] : t \in {<<>>, <<" ">>}}
    \cup {[kind |-> "number", text |-> decimal(k), n |-> k] : k \in 1..(MaxCustomLen + 1)}
    \cup {[kind |-> "other", text |-> t, n |-> 0] : t \in {<<"x">>, <<"0">>}}

NumberToken(n) == [number |-> TRUE, value |-> n, text |-> decimal(n)]
TypedTokens ==
    {NumberToken(n) : n \in {0, 1, 2}}
    \cup {[number |-> FALSE, value |-> 0, text |-> <<"x">>]}

\* the custom-rank lines: every line of up to MaxCustomLen tokens, and the lines
\* "3", "400", "401", "10 999999999" and "50 30"
TypedRanks ==
    UNION {[1..n -> TypedTokens] : n \in 0..MaxCustomLen}
    \cup {<<NumberToken(3)>>, <<NumberToken(400)>>, <<NumberToken(401)>>,
          <<NumberToken(10), NumberToken(999999999)>>,
          <<NumberToken(50), NumberToken(30)>>}

RECURSIVE join(_)
join(tokens) ==
    IF tokens = <<>> THEN <<>>
    ELSE IF Len(tokens) = 1 THEN Head(tokens).text
         ELSE Head(tokens).text \o <<" ">> \o join(Tail(tokens))

-----------------------------------------------------------------------------
(* main *)

ADDED_DESC == <<"a", "d", "d", "e", "d", "-">>
FORMAT == <<"-", "-", "f", "o", "r", "m", "a", "t">>
FORMAT_ADDED ==
    <<"$", "a", "d", "d", "e", "d", " ", "$", "a", "r", "t", "i", "s", "t", " ", "-", " ", "$", "a", "l", "b", "u", "m", " ", "-", " ", "$", "t", "i", "t", "l", "e">>
FORMAT_ID == <<"$", "i", "d">>
ADDED_FROM == <<"a", "d", "d", "e", "d", ":">>
OPEN_RANGE == <<".", ".">>

TEXT == <<"x">>

\* the lists `beet list ... added-` can print: at most MaxLen lines, newest first
SortedLists ==
    LET ranks == UNION {[1..n -> 1..Len(DatesDescending)] : n \in 0..MaxLen}
        sorted == {f \in ranks : \A i \in 1..(Len(f) - 1) : f[i] <= f[i + 1]}
    IN  {[i \in 1..Len(f) |-> DateEntry(DatesDescending[f[i]], TEXT)] : f \in sorted}

\* the long list whose only date change lies at pair index `change`
LongList(change) ==
    [k \in 1..SampleLen |-> DateEntry(IF k <= change + 1 THEN Date2 ELSE Date1, TEXT)]

\* long lists that change date at or after pair index 30, the first default target
LongLists == {LongList(change) : change \in {30, SampleLen - 2}}

MainTimelessArgs == {<<"a", "\n", "b", ",", "c">>, <<"a", ",", ",", "b">>}
MaxEntriesChoices == {2, 400}
NoNotice == [msg |-> "", number |-> 0]
Unit == "()"

Init ==
    /\ pc = "Start"
    /\ timeless_args \in MainTimelessArgs
    /\ max_entries \in MaxEntriesChoices
    /\ output_file_key \in [file : BOOLEAN, key : BOOLEAN]
    /\ beets = None
    /\ entries = <<>>
    /\ target_counts = <<>>
    /\ pass = <<>>
    /\ transitions = <<>>
    /\ date_entry = None
    /\ issued = <<>>
    /\ query_results = <<>>
    /\ written = <<>>
    /\ notice = NoNotice
    /\ target_str = None
    /\ typed = None
    /\ command = None
    /\ exit_status = None
    /\ IdleFind
    /\ IdleFilter
    /\ IdleParse
    /\ IdleQuery

Return(result) ==
    /\ pc' = "Exited"
    /\ exit_status' = Some(result)

selectorVars == <<target_counts, pass, transitions, notice, target_str, typed, command>>
argVars == <<timeless_args, max_entries, output_file_key>>

\* main.rs:28-46: BeetCommand::new and the pairing of --output-file with --output-key
ParseArgs ==
    /\ pc = "Start"
    /\ LET built == BeetCommand_new(timeless_args)
       IN  /\ beets' = Some(built)
           /\ IF ~built.ok THEN Return(built)
              ELSE IF output_file_key.file /\ ~output_file_key.key
                   THEN Return(Err("missing output_key for provided output_file"))
              ELSE IF ~output_file_key.file /\ output_file_key.key
                   THEN Return(Err("missing output_file for provided output_key"))
              ELSE IF output_file_key.file
                   THEN pc' = "ReadJson" /\ UNCHANGED exit_status
              ELSE pc' = "Query" /\ UNCHANGED exit_status
    /\ UNCHANGED <<argVars, entries, selectorVars, date_entry, issued, query_results, written,
                   findVars, filterVars, parseVars, queryVars>>

\* main.rs:48-54: read_json_file succeeds (a missing file included) or fails
ReadJsonFile ==
    /\ pc = "ReadJson"
    /\ \E readable \in BOOLEAN :
        IF readable THEN pc' = "Query" /\ UNCHANGED exit_status
        ELSE Return(Err("reading json file"))
    /\ UNCHANGED <<argVars, beets, entries, selectorVars, date_entry, issued, query_results,
                   written,
                   findVars, filterVars, parseVars, queryVars>>

\* main.rs:56: query_timeless issues the list command and returns the parsed lines
\* or an error; select_end then starts with the default targets (main.rs:143)
QueryTimeless ==
    /\ pc = "Query"
    /\ issued' = Append(issued, new_list_command(beets.val.val, None).args
                                \o <<ADDED_DESC, FORMAT, FORMAT_ADDED>>)
    /\ \/ /\ Return(Err("query current items"))
          /\ query_results' = Append(query_results, Err("query current items"))
          /\ UNCHANGED <<entries, target_counts>>
       \/ /\ \E list \in SortedLists \cup LongLists :
                /\ Len(list) <= max_entries
                /\ entries' = list
                /\ query_results' = Append(query_results, Ok(list))
          /\ target_counts' = TARGET_COUNTS
          /\ pc' = "Evaluating"
          /\ UNCHANGED exit_status
    /\ UNCHANGED <<argVars, beets, pass, transitions, notice, target_str, typed, command,
                   date_entry, written, findVars, filterVars, parseVars, queryVars>>

\* a pass that asks the process for the entry list again
EvaluateRefetching ==
    /\ pc = "Evaluating"
    /\ issued' = Append(issued, new_list_command(beets.val.val, None).args
                                \o <<ADDED_DESC, FORMAT, FORMAT_ADDED>>)
    /\ pass' = filter_map(entries, target_counts, 1, None, 1)
    /\ transitions' = collect_transitions(pass')
    /\ pc' = "AwaitingCommand"
    /\ command' = None
    /\ UNCHANGED <<argVars, beets, entries, target_counts, notice, target_str, typed,
                   date_entry, query_results, written, exit_status,
                   findVars, filterVars, parseVars, queryVars>>

\* main.rs:145-170: one pass of select_end over the target counts
Evaluate ==
    /\ pc = "Evaluating"
    /\ pass' = filter_map(entries, target_counts, 1, None, 1)
    /\ transitions' = collect_transitions(pass')
    /\ pc' = "AwaitingCommand"
    /\ command' = None
    /\ UNCHANGED <<argVars, beets, entries, target_counts, notice, target_str, typed,
                   date_entry, issued, query_results, written, exit_status, findVars, filterVars, parseVars, queryVars>>

\* a lookup that forgets that choices are numbered from 1
get_choice_from_zero(list, number) ==
    IF number < Len(list) THEN Some(list[number + 1]) ELSE None

\* transitions.get(number.get() - 1): element `index` of a Rust slice is list[index + 1]
get_choice(list, number) ==
    LET index == number - 1
    IN  IF index < Len(list) THEN Some(list[index + 1]) ELSE None

\* main.rs:192-229 without the Custom arm's second read: the loop body for one
\* line read at the selection prompt (the buffer is cleared before every read, so
\* it carries nothing from one read to the next)
HandleCommand(line) ==
    /\ pc = "AwaitingCommand"
    /\ LET matched == Command_from_str(read_line(line))
       IN  IF ~matched.ok
           THEN /\ Return(matched)
                /\ command' = None
                /\ notice' = NoNotice
                /\ UNCHANGED date_entry
           ELSE /\ command' = Some(matched.val)
                /\ IF matched.val = Quit
                   THEN /\ Return(Ok(Unit))
                        /\ notice' = NoNotice
                        /\ date_entry' = None
                   ELSE IF matched.val = Custom
                   THEN /\ pc' = "AwaitingCustomRanks"
                        /\ notice' = NoNotice
                        /\ UNCHANGED <<date_entry, exit_status>>
                   ELSE IF matched.val = Empty
                   THEN /\ notice' = NoNotice
                        /\ UNCHANGED <<pc, date_entry, exit_status>>
                   ELSE LET choice == get_choice(transitions, matched.val.number)
                        IN  IF choice.some
                            THEN /\ date_entry' = Some(choice.val.included)
                                 /\ pc' = "Count"
                                 /\ notice' = NoNotice
                                 /\ UNCHANGED exit_status
                            ELSE /\ notice' = [msg |-> "invalid number",
                                               number |-> matched.val.number]
                                 /\ UNCHANGED <<pc, date_entry, exit_status>>
    /\ UNCHANGED <<argVars, beets, entries, target_counts, pass, transitions,
                   target_str, typed, issued, query_results, written,
                   findVars, filterVars, parseVars, queryVars>>

ReadCommand == \E t \in TypedCommands : HandleCommand(RawLine(t.text))

\* the line "  2 \t 1 ": blanks and a tab around the tokens
TabbedRanks == <<" ", " ", "2", " ", "\t", " ", "1", " ", "\n">>

\* main.rs:197-198: the Custom arm reads one line at the custom-rank prompt
ReadCustomLine(tokens, line) ==
    /\ pc = "AwaitingCustomRanks"
    /\ target_str' = Some(read_line(line))
    /\ typed' = Some(tokens)
    /\ pc' = "ParsingCustomRanks"
    /\ UNCHANGED <<argVars, beets, entries, target_counts, pass, transitions, notice,
                   command, date_entry, issued, query_results, written, exit_status, findVars, filterVars, parseVars, queryVars>>

ReadCustomRanks ==
    \/ \E tokens \in TypedRanks : ReadCustomLine(tokens, RawLine(join(tokens)))
    \/ ReadCustomLine(<<NumberToken(2), NumberToken(1)>>, TabbedRanks)

\* a Custom arm that takes the new targets and goes on prompting with the
\* transitions of the pass before
ParseCustomRanksKeeping ==
    /\ pc = "ParsingCustomRanks"
    /\ LET new_counts == new_counts_of(target_str.val, max_entries)
       IN  IF new_counts.ok
           THEN /\ target_counts' = new_counts.val
                /\ pc' = "AwaitingCommand"
                /\ notice' = NoNotice
                /\ UNCHANGED <<pass, transitions>>
           ELSE /\ notice' = [msg |-> "invalid custom input",
                              number |-> new_counts.number]
                /\ pc' = "AwaitingCommand"
                /\ UNCHANGED <<target_counts, pass, transitions>>
    /\ target_str' = None
    /\ typed' = None
    /\ UNCHANGED <<argVars, beets, entries, command, date_entry, issued, query_results,
                   written, exit_status, findVars, filterVars, parseVars, queryVars>>

\* a Custom arm that adds the new targets to the ones it had
ParseCustomRanksMerging ==
    /\ pc = "ParsingCustomRanks"
    /\ LET new_counts == new_counts_of(target_str.val, max_entries)
       IN  IF new_counts.ok
           THEN /\ target_counts' = target_counts \o new_counts.val
                /\ pc' = "Evaluating"
                /\ notice' = NoNotice
                /\ pass' = <<>>
                /\ transitions' = <<>>
           ELSE /\ notice' = [msg |-> "invalid custom input",
                              number |-> new_counts.number]
                /\ pc' = "AwaitingCommand"
                /\ UNCHANGED <<target_counts, pass, transitions>>
    /\ target_str' = None
    /\ typed' = None
    /\ UNCHANGED <<argVars, beets, entries, command, date_entry, issued, query_results,
                   written, exit_status, findVars, filterVars, parseVars, queryVars>>

\* main.rs:199-217: the Custom arm parses the line; target_str then leaves scope
ParseCustomRanks ==
    /\ pc = "ParsingCustomRanks"
    /\ LET new_counts == new_counts_of(target_str.val, max_entries)
       IN  IF new_counts.ok
           THEN \* NewCounts returns to select_end, whose loop starts anew: the
                \* transitions of the pass before are dropped (main.rs:173-175)
                /\ target_counts' = new_counts.val
                /\ pc' = "Evaluating"
                /\ notice' = NoNotice
                /\ pass' = <<>>
                /\ transitions' = <<>>
           ELSE /\ notice' = [msg |-> "invalid custom input",
                              number |-> new_counts.number]
                /\ pc' = "AwaitingCommand"
                /\ UNCHANGED <<target_counts, pass, transitions>>
    /\ target_str' = None
    /\ typed' = None
    /\ UNCHANGED <<argVars, beets, entries, command, date_entry, issued, query_results,
                   written, exit_status, findVars, filterVars, parseVars, queryVars>>

\* what count_entries_after can return, the context of main.rs:66 added
CountResults == {Err("counting entries with chosen date bound"), Ok(0), Ok(1)}

\* a step that goes on to the JSON store whatever the count query returned
CountEntriesAfterUnchecked ==
    /\ pc = "Count"
    /\ issued' = Append(issued,
                        new_list_command(beets.val.val,
                                         Some(ADDED_FROM \o date_entry.val.date \o OPEN_RANGE)).args
                        \o <<FORMAT, FORMAT_ID>>)
    /\ \E final_count \in CountResults :
        /\ query_results' = Append(query_results, final_count)
        /\ IF output_file_key.file THEN pc' = "Write" /\ UNCHANGED exit_status
           ELSE Return(Ok(Unit))
    /\ UNCHANGED <<argVars, beets, entries, selectorVars, date_entry, written,
                   findVars, filterVars, parseVars, queryVars>>

\* main.rs:64-67: count_entries_after issues the list command with the date bound
CountEntriesAfter ==
    /\ pc = "Count"
    /\ issued' = Append(issued,
                        new_list_command(beets.val.val,
                                         Some(ADDED_FROM \o date_entry.val.date \o OPEN_RANGE)).args
                        \o <<FORMAT, FORMAT_ID>>)
    /\ \E final_count \in CountResults :
        /\ query_results' = Append(query_results, final_count)
        /\ IF ~final_count.ok THEN Return(final_count)
           ELSE IF output_file_key.file THEN pc' = "Write" /\ UNCHANGED exit_status
           ELSE Return(Ok(Unit))
    /\ UNCHANGED <<argVars, beets, entries, selectorVars, date_entry, written,
                   findVars, filterVars, parseVars, queryVars>>

\* main.rs:69-78: insert the date under the key and write the file
WriteJsonFile ==
    /\ pc = "Write"
    /\ \E writable \in BOOLEAN :
        IF writable
        THEN /\ written' = Append(written, date_entry.val.date)
             /\ Return(Ok(Unit))
        ELSE /\ Return(Err("writing json file"))
             /\ UNCHANGED written
    /\ UNCHANGED <<argVars, beets, entries, selectorVars, date_entry, issued,
                   query_results, findVars, filterVars, parseVars, queryVars>>

Next ==
    \/ ParseArgs
    \/ ReadJsonFile
    \/ QueryTimeless
    \/ Evaluate
    \/ ReadCommand
    \/ ReadCustomRanks
    \/ ParseCustomRanks
    \/ CountEntriesAfter
    \/ WriteJsonFile

Spec == Init /\ [][Next]_vars

-----------------------------------------------------------------------------
(* The selector *)

SelectorStates ==
    {"Evaluating", "AwaitingCommand", "AwaitingCustomRanks", "ParsingCustomRanks"}

\* C4 as stated: an unrecognized command at the selection prompt is recoverable:
\* the selector keeps awaiting a command, the target ranks and the transitions
\* are unchanged, and the program has not ended.
C4_UnrecognizedIsRecoverable ==
    [][\A t \in TypedCommands :
           (t.kind = "other" /\ HandleCommand(RawLine(t.text))) =>
               /\ pc' = "AwaitingCommand"
               /\ exit_status' = None
               /\ target_counts' = target_counts
               /\ transitions' = transitions]_vars

\* C5: a positive integer n typed at the selection prompt ends the selector with
\* the included entry of the n-th transition when 1 <= n <= the number of
\* transitions; otherwise "invalid number" is printed and the selector keeps
\* awaiting a command with the same transitions and target ranks.
C5_NumberPicksNthTransition ==
    [][\A t \in TypedCommands :
           (t.kind = "number" /\ HandleCommand(RawLine(t.text))) =>
               IF 1 <= t.n /\ t.n <= Len(transitions)
               THEN /\ pc' \notin SelectorStates
                    /\ date_entry' = Some(transitions[t.n].included)
               ELSE /\ notice' = [msg |-> "invalid number", number |-> t.n]
                    /\ pc' = "AwaitingCommand"
                    /\ date_entry' = None
                    /\ transitions' = transitions
                    /\ target_counts' = target_counts]_vars

\* the second of two transitions was picked
C5_Witness ==
    /\ pc = "Count"
    /\ Len(transitions) >= 2
    /\ date_entry = Some(transitions[2].included)
    /\ date_entry # Some(transitions[1].included)

\* every token is a non-negative integer no greater than max_entries
AllTokensValid(tokens) ==
    \A i \in 1..Len(tokens) : tokens[i].number /\ tokens[i].value <= max_entries

\* C6: a custom-rank line with a token that is greater than max_entries or is no
\* non-negative integer is rejected whole: the target ranks and transitions stay
\* and the selector prompts again; a token equal to max_entries is accepted, and
\* only when every token is valid do the typed values become the target ranks
\* and the selector evaluates again. "10 999999999" with max_entries 400 applies
\* no rank and the message cites 999999999.
C6_CustomRanksAllOrNothing ==
    [][pc = "ParsingCustomRanks" =>
           LET tokens == typed.val
           IN  /\ IF AllTokensValid(tokens)
                  THEN /\ target_counts' = [i \in 1..Len(tokens) |-> tokens[i].value]
                       /\ pc' = "Evaluating"
                  ELSE /\ target_counts' = target_counts
                       /\ transitions' = transitions
                       /\ pc' = "AwaitingCommand"
                       /\ notice'.msg = "invalid custom input"
               /\ (max_entries = 400
                   /\ tokens = <<NumberToken(10), NumberToken(999999999)>>) =>
                      /\ target_counts' = target_counts
                      /\ notice'.number = 999999999]_vars

\* "10 999999999" was rejected with max_entries 400, the targets are the defaults
C6_Witness ==
    /\ pc = "AwaitingCommand"
    /\ max_entries = 400
    /\ notice = [msg |-> "invalid custom input", number |-> 999999999]
    /\ target_counts = TARGET_COUNTS

\* positions before k in the pass at which a transition was accepted
AcceptedBefore(k) == {j \in 1..(k - 1) : pass[j].transition.some}
HasAccepted(k) == AcceptedBefore(k) # {}
\* the most recently accepted transition before position k
LastAccepted(k) ==
    pass[CHOOSE j \in AcceptedBefore(k) : \A i \in AcceptedBefore(k) : i <= j].transition.val

Skipped(k) == pass[k].printed = "skipping target"

\* C7 as stated: a target is skipped iff a transition was accepted earlier in the
\* pass and the target is <= the rank (pair index + 1) of the most recent one.
C7_SkippedIffAtMostRank ==
    \A k \in 1..Len(pass) :
        Skipped(k) <=> (HasAccepted(k) /\ pass[k].target <= rank(LastAccepted(k)))

\* C7 amended: a target is skipped iff a transition was accepted earlier in the
\* pass and the target is <= the pair index of the most recent one, that is
\* strictly below its rank; every other target, one equal to that rank included,
\* is evaluated with the transition finder.
C7_SkippedIffAtMostIndex ==
    \A k \in 1..Len(pass) :
        /\ Skipped(k) <=> (HasAccepted(k) /\ pass[k].target <= LastAccepted(k).index)
        /\ Skipped(k) => pass[k].transition = None
        /\ ~Skipped(k) => pass[k].transition = find_transition(entries, pass[k].target)

\* a pass skipped a target equal to the pair index of the accepted transition and
\* the pass is the one the selector presents
C7_Witness ==
    /\ pc = "AwaitingCommand"
    /\ \E k \in 1..Len(pass) :
        /\ Skipped(k)
        /\ pass[k].target = LastAccepted(k).index

\* C9: "q", "quit" or "exit" in any letter case ends the selector with no
\* selection; the program then ends successfully without a count query and
\* without a write to the JSON store.
C9_QuitEndsWithoutSelection ==
    /\ [][\A t \in TypedCommands :
              (t.kind = "quit" /\ HandleCommand(RawLine(t.text))) =>
                  /\ pc' = "Exited"
                  /\ date_entry' = None
                  /\ exit_status' = Some(Ok(Unit))
                  /\ issued' = issued
                  /\ written' = written]_vars
    /\ []((pc = "Exited" /\ date_entry = None) =>
              (Len(issued) <= 1 /\ written = <<>>))

\* the program ended successfully with no selection after a pass that had
\* transitions to offer
C9_Witness ==
    /\ pc = "Exited"
    /\ exit_status = Some(Ok(Unit))
    /\ date_entry = None
    /\ transitions # <<>>

\* C10: every computed transition has included.date # excluded.date, and its
\* excluded entry is the entry right after its included entry in the list.
C10_TransitionsChangeDate ==
    \A i \in 1..Len(transitions) :
        LET t == transitions[i]
        IN  /\ t.included.date # t.excluded.date
            /\ t.index + 2 <= Len(entries)
            /\ entries[t.index + 1] = t.included
            /\ entries[t.index + 2] = t.excluded

\* a pass computed two transitions at different places of the list
C10_Witness ==
    /\ pc = "AwaitingCommand"
    /\ Len(transitions) >= 2
    /\ transitions[1].index < transitions[2].index

-----------------------------------------------------------------------------
(* DateEntry::try_from: a String is UTF-8, its len() and its ranges count bytes *)

\* stands for one character of two bytes in UTF-8 (U+00E9)
E_ACUTE == "e-acute"

\* char::len_utf8
len_utf8(c) == IF c = E_ACUTE THEN 2 ELSE 1

\* str::len(): the number of bytes
RECURSIVE len(_)
len(s) == IF s = <<>> THEN 0 ELSE len_utf8(Head(s)) + len(Tail(s))

\* the number of characters that end at or before byte offset n
chars_before(s, n) ==
    CHOOSE k \in 0..Len(s) :
        /\ len(SubSeq(s, 1, k)) <= n
        /\ k < Len(s) => len(SubSeq(s, 1, k + 1)) > n

\* str::is_char_boundary
is_char_boundary(s, n) == n <= len(s) /\ len(SubSeq(s, 1, chars_before(s, n))) = n

\* s[..n] and s[n..], which panic unless n is a char boundary
slice_to(s, n) == SubSeq(s, 1, chars_before(s, n))
slice_from(s, n) == SubSeq(s, chars_before(s, n) + 1, Len(s))

DATE_LENGTH == 10
ENTRY_START == 20

Panic(m) == [ok |-> FALSE, err |-> m, panicked |-> TRUE]
NOT_CHAR_BOUNDARY == "byte index is not a char boundary"
TOO_SHORT == "entry too short"
\* anyhow::bail!("entry too short: {s}")
TooShort(s) == [ok |-> FALSE, err |-> TOO_SHORT, text |-> s]

\* a parser that accepts a line of exactly ENTRY_START bytes
DateEntry_try_from_inclusive(s) ==
    IF ENTRY_START <= len(s)
    THEN IF is_char_boundary(s, DATE_LENGTH) /\ is_char_boundary(s, ENTRY_START)
         THEN Ok(DateEntry(slice_to(s, DATE_LENGTH), slice_from(s, ENTRY_START)))
         ELSE Panic(NOT_CHAR_BOUNDARY)
    ELSE TooShort(s)

DateEntry_try_from(s) ==
    IF ENTRY_START < len(s)
    THEN IF is_char_boundary(s, DATE_LENGTH) /\ is_char_boundary(s, ENTRY_START)
         THEN Ok(DateEntry(slice_to(s, DATE_LENGTH), slice_from(s, ENTRY_START)))
         ELSE Panic(NOT_CHAR_BOUNDARY)
    ELSE TooShort(s)

-----------------------------------------------------------------------------
(* DateEntry::try_from on drawn lines *)

\* "YYYY-MM-DD HH:MM:SS " as `beet list --format '$added ...'` prints it
STAMP == Date2 \o <<" ", "1", "2", ":", "3", "4", ":", "5", "6", " ">>

\* character i of a well-formed line: the stamp, then the description
LineChar(i) == IF i <= Len(STAMP) THEN STAMP[i] ELSE "x"

OtherChars == {"#", E_ACUTE}

\* every prefix of the well-formed line of up to MaxLineLen characters, with up
\* to two of its characters replaced
ParseLines ==
    LET plain(n) == [i \in 1..n |-> LineChar(i)]
    IN  UNION {
            {plain(n)}
            \cup {[plain(n) EXCEPT ![p] = c] : p \in 1..n, c \in OtherChars}
            \cup {[plain(n) EXCEPT ![p] = c, ![q] = d] :
                      p \in 1..n, q \in 1..n, c \in OtherChars, d \in OtherChars}
            : n \in 0..MaxLineLen}

InitParse ==
    /\ try_line \in ParseLines
    /\ parsed = [called |-> FALSE]
    /\ IdleMain
    /\ IdleFind
    /\ IdleFilter
    /\ IdleQuery

TryFrom ==
    /\ parsed = [called |-> FALSE]
    /\ parsed' = [called |-> TRUE, result |-> DateEntry_try_from(try_line)]
    /\ UNCHANGED <<try_line, mainVars, findVars, filterVars, queryVars>>

NextParse == TryFrom

SpecParse == InitParse /\ [][NextParse]_vars

\* the line with the character at position i replaced by c
Replaced(i, c) == [try_line EXCEPT ![i] = c]

\* C12 as stated: parsing fails for every line of at most 20 characters whatever
\* its content, and for every line of 21 characters or more it succeeds with the
\* date being the first 10 characters and the entry the characters from offset
\* 20 on; characters 10 to 19 never influence the result.
C12_LengthDecidesParsing ==
    parsed.called =>
        /\ Len(try_line) <= 20 => ~parsed.result.ok
        /\ Len(try_line) >= 21 =>
               /\ parsed.result = Ok(DateEntry(SubSeq(try_line, 1, 10),
                                               SubSeq(try_line, 21, Len(try_line))))
               /\ \A i \in 11..20 : \A c \in OtherChars :
                      DateEntry_try_from(Replaced(i, c)) = parsed.result

\* the first 20 bytes of the line are one-byte characters
AsciiHead(s) == \A i \in 1..Len(s) : i <= ENTRY_START => len_utf8(s[i]) = 1

\* C12 amended: lengths and offsets are counted in bytes of UTF-8. Parsing fails
\* for every line of at most 20 bytes. A line of 21 bytes or more whose first 20
\* bytes are one-byte characters parses with date = its first 10 characters and
\* entry = everything from offset 20, and replacing any of characters 10 to 19
\* by another one-byte character does not change the result. A line of 21 bytes
\* or more with a longer character in its first 20 bytes either aborts (offset
\* 10 or 20 falls inside a character) or yields the first 10 bytes as the date
\* and the bytes from 20 on as the entry.
C12_ByteLengthDecidesParsing ==
    parsed.called =>
        /\ len(try_line) <= 20 => parsed.result = TooShort(try_line)
        /\ (len(try_line) >= 21 /\ AsciiHead(try_line)) =>
               /\ parsed.result = Ok(DateEntry(SubSeq(try_line, 1, 10),
                                               SubSeq(try_line, 21, Len(try_line))))
               /\ \A i \in 11..20 :
                      DateEntry_try_from(Replaced(i, "#")) = parsed.result
        /\ (len(try_line) >= 21 /\ ~AsciiHead(try_line)) =>
               \/ parsed.result = Panic(NOT_CHAR_BOUNDARY)
               \/ /\ parsed.result.ok
                  /\ len(parsed.result.val.date) = 10
                  /\ len(parsed.result.val.entry) = len(try_line) - 20
                  /\ \E middle \in {SubSeq(try_line, a, b) : a, b \in 1..Len(try_line)} :
                         try_line = parsed.result.val.date \o middle
                                    \o parsed.result.val.entry

\* a line of one-byte characters was parsed whose characters 10 to 19 are not
\* all those of the stamp
C12_Witness ==
    /\ parsed.called
    /\ parsed.result.ok
    /\ AsciiHead(try_line)
    /\ Len(try_line) > 21
    /\ \E i \in 11..20 : try_line[i] = "#"

-----------------------------------------------------------------------------
(* The process runner: CheckErrors::stdout_check_errors *)

\* Result<std::process::Output, std::io::Error>; the streams are UTF-8 text, and
\* the exit status is Some(code) or None when a signal ended the process
LaunchFailed == [launched |-> FALSE]
Output(status, stdout, stderr) ==
    [launched |-> TRUE, status |-> status, stdout |-> stdout, stderr |-> stderr]

\* ExitStatus::success
success(status) == status = Some(0)

\* anyhow::Context: the context wraps the error, the outermost context first
context_of(r) == IF "context" \in DOMAIN r THEN r.context ELSE <<>>
with_context(r, c) ==
    IF r.ok THEN r
    ELSE [ok |-> FALSE, err |-> r.err, context |-> <<c>> \o context_of(r)]

\* a check that looks at the error stream only
stdout_check_errors_any_status(result) ==
    IF ~result.launched THEN Err("io error")
    ELSE IF result.stderr # <<>> THEN Err("subprocess stderr")
    ELSE Ok(result.stdout)

stdout_check_errors(result) ==
    IF ~result.launched THEN Err("io error")
    ELSE IF result.stderr # <<>> THEN Err("subprocess stderr")
    ELSE IF ~success(result.status) THEN Err("subprocess status")
    ELSE Ok(result.stdout)

\* BufRead::lines() on the captured bytes: each line ends at "\n"; the "\n" is
\* removed and then a "\r" before it; the final line needs no terminator
RECURSIVE buf_lines(_)
buf_lines(bytes) ==
    IF bytes = <<>> THEN <<>>
    ELSE LET i == index_of(bytes, "\n", 1)
         IN  IF i = 0 THEN <<bytes>>
             ELSE <<strip_cr(SubSeq(bytes, 1, i - 1))>>
                  \o buf_lines(SubSeq(bytes, i + 1, Len(bytes)))

LineContext(number) == <<"line from current_output beet command", number>>

\* the items of .lines().enumerate(): the line read (reading text never fails)
\* with the context of its 1-based number
enumerate_lines(bytes) ==
    LET ls == buf_lines(bytes)
    IN  [i \in 1..Len(ls) |-> with_context(Ok(ls[i]), LineContext((i - 1) + 1))]

-----------------------------------------------------------------------------
(* BeetCommand::query_timeless and BeetCommand::count_entries_after *)

\* Iterator::take
take(list, n) == SubSeq(list, 1, IF n < Len(list) THEN n ELSE Len(list))

\* the closure of .map(): `?` on the line read, then DateEntry::try_from
parse_line(read) == IF read.ok THEN DateEntry_try_from(read.val) ELSE read

\* a query that parses every line and truncates afterwards
query_timeless_parse_all(result, max) ==
    LET current_output == with_context(stdout_check_errors(result), "beet ls [current_args]")
    IN  IF ~current_output.ok THEN current_output
        ELSE LET read == enumerate_lines(current_output.val)
                 all == collect([i \in 1..Len(read) |-> parse_line(read[i])])
             IN  IF all.ok THEN Ok(take(all.val, max)) ELSE all

query_timeless(result, max) ==
    LET current_output == with_context(stdout_check_errors(result), "beet ls [current_args]")
    IN  IF ~current_output.ok THEN current_output
        ELSE LET read == take(enumerate_lines(current_output.val), max)
             IN  collect([i \in 1..Len(read) |-> parse_line(read[i])])

\* a test that takes a line of whitespace for an entry
current_untrimmed(text) == IF text = <<>> THEN 0 ELSE 1

\* let current = if line.trim().is_empty() { 0 } else { 1 }
current(text) == IF trim(text) = <<>> THEN 0 ELSE 1

\* the closure of try_fold over read[k..] with the sum so far
RECURSIVE try_fold(_, _, _)
try_fold(read, k, sum) ==
    IF k > Len(read) THEN Ok(sum)
    ELSE IF ~read[k].ok THEN read[k]
    ELSE try_fold(read, k + 1, sum + current(read[k].val))

count_entries_after(result) ==
    LET checked == with_context(stdout_check_errors(result),
                                "beet ls [current_args] added:[selection]..")
    IN  IF ~checked.ok THEN checked
        ELSE try_fold(enumerate_lines(checked.val), 1, 0)

-----------------------------------------------------------------------------
(* The process runner and the queries on drawn outputs *)

\* a line of the list query for an entry added on `date`
EntryLine(date) == date \o SubSeq(STAMP, DATE_LENGTH + 1, ENTRY_START) \o <<"x">>
ID == <<"7">>

\* lines a process may print: two entries, an identifier, an identifier before
\* a CR, an empty line and a line of whitespace
LineChoices ==
    {EntryLine(Date2), EntryLine(Date1), ID, ID \o <<"\r">>, <<>>, <<" ", "\t">>}

RECURSIVE join_lines(_, _)
join_lines(ls, terminated) ==
    IF ls = <<>> THEN <<>>
    ELSE IF Len(ls) = 1 THEN Head(ls) \o (IF terminated THEN <<"\n">> ELSE <<>>)
    ELSE Head(ls) \o <<"\n">> \o join_lines(Tail(ls), terminated)

\* up to MaxLines lines, the last one with or without its terminator
Stdouts ==
    {join_lines(ls, terminated) :
        ls \in UNION {[1..n -> LineChoices] : n \in 0..MaxLines},
        terminated \in BOOLEAN}

Statuses == {Some(0), Some(1), None}
Stderrs == {<<>>, <<"e">>}
FewStdouts == {<<>>, join_lines(<<EntryLine(Date2), EntryLine(Date1)>>, TRUE),
               join_lines(<<ID, ID>>, TRUE)}

ProcessResults ==
    {LaunchFailed}
    \cup {Output(Some(0), out, <<>>) : out \in Stdouts}
    \cup {Output(status, out, err) : status \in Statuses, out \in FewStdouts, err \in Stderrs}

InitQuery ==
    /\ output \in ProcessResults
    /\ take_limit \in 0..MaxTake
    /\ returned = [by |-> "none"]
    /\ IdleMain
    /\ IdleFind
    /\ IdleFilter
    /\ IdleParse

RunStdoutCheckErrors ==
    /\ returned = [by |-> "none"]
    /\ returned' = [by |-> "stdout_check_errors", result |-> stdout_check_errors(output)]
    /\ UNCHANGED <<output, take_limit, mainVars, findVars, filterVars, parseVars>>

RunQueryTimeless ==
    /\ returned = [by |-> "none"]
    /\ returned' = [by |-> "query_timeless", result |-> query_timeless(output, take_limit)]
    /\ UNCHANGED <<output, take_limit, mainVars, findVars, filterVars, parseVars>>

RunCountEntriesAfter ==
    /\ returned = [by |-> "none"]
    /\ returned' = [by |-> "count_entries_after", result |-> count_entries_after(output)]
    /\ UNCHANGED <<output, take_limit, mainVars, findVars, filterVars, parseVars>>

NextQuery == RunStdoutCheckErrors \/ RunQueryTimeless \/ RunCountEntriesAfter

SpecQuery == InitQuery /\ [][NextQuery]_vars

\* the process ended with status zero and printed nothing on its error stream
CleanExit == output.launched /\ success(output.status) /\ output.stderr = <<>>

\* the lines of the captured standard output
OutputLines == buf_lines(output.stdout)

Parsed(k) == DateEntry_try_from(OutputLines[k])

Range(f) == {f[i] : i \in DOMAIN f}

\* C13 as stated: fetch_recent(limit) fails if any line of the output fails
\* DateEntry parsing, and the error identifies that line's 1-based number; when
\* it succeeds the result is the parsed first min(limit, lines) lines in order.
C13_FailsOnAnyBadLine ==
    (returned.by = "query_timeless" /\ CleanExit) =>
        LET bad == {k \in 1..Len(OutputLines) : ~Parsed(k).ok}
            n == IF take_limit < Len(OutputLines) THEN take_limit ELSE Len(OutputLines)
        IN  /\ bad # {} =>
                /\ ~returned.result.ok
                /\ \E k \in bad : LineContext(k) \in Range(context_of(returned.result))
            /\ returned.result.ok => returned.result.val = [i \in 1..n |-> Parsed(i).val]

\* C13 amended: fetch_recent(limit) parses only the first min(limit, lines) lines
\* of the output. It fails exactly when one of those fails DateEntry parsing; the
\* error is then "entry too short" with the text of the first such line, and
\* carries no line number. A line after the first `limit` lines is never parsed
\* and cannot make the query fail. When the query succeeds the result is the
\* parsed first min(limit, lines) lines, in output order.
C13_FailsOnBadLineWithinLimit ==
    (returned.by = "query_timeless" /\ CleanExit) =>
        LET n == IF take_limit < Len(OutputLines) THEN take_limit ELSE Len(OutputLines)
            bad == {k \in 1..n : ~Parsed(k).ok}
            first == CHOOSE k \in bad : \A j \in bad : k <= j
        IN  IF bad # {}
            THEN /\ returned.result = TooShort(OutputLines[first])
                 /\ context_of(returned.result) = <<>>
            ELSE returned.result = Ok([i \in 1..n |-> Parsed(i).val])

\* the query succeeded with entries although a line after the first `limit`
\* lines does not parse
C13_Witness ==
    /\ returned.by = "query_timeless"
    /\ CleanExit
    /\ returned.result.ok
    /\ returned.result.val # <<>>
    /\ \E k \in (take_limit + 1)..Len(OutputLines) : ~Parsed(k).ok

\* every character of the line is whitespace
IsBlank(text) == \A i \in 1..Len(text) : text[i] \in {" ", "\t", "\r", "\n"}

\* the output followed by one more line
OneMoreLine(text) == Output(output.status, output.stdout \o text \o <<"\n">>, output.stderr)

\* C16: count_after returns the number of non-blank lines of the output: a blank
\* line (empty or whitespace only) adds nothing to the count, every other line
\* adds exactly one.
C16_CountsNonBlankLines ==
    (returned.by = "count_entries_after" /\ CleanExit) =>
        /\ returned.result =
               Ok(Cardinality({k \in 1..Len(OutputLines) : ~IsBlank(OutputLines[k])}))
        /\ (output.stdout = <<>> \/ output.stdout[Len(output.stdout)] = "\n") =>
               \A text \in LineChoices :
                   count_entries_after(OneMoreLine(text)) =
                       Ok(returned.result.val + (IF IsBlank(text) THEN 0 ELSE 1))

\* an output with an empty line, a line of whitespace and an identifier was counted
C16_Witness ==
    /\ returned.by = "count_entries_after"
    /\ returned.result = Ok(1)
    /\ \E j, k \in 1..Len(OutputLines) :
           /\ OutputLines[j] = <<>>
           /\ OutputLines[k] = <<" ", "\t">>

\* C17: a process invocation yields the captured standard output iff the exit
\* status is zero and the standard error is empty; in every other case (error
\* output, non-zero status, failure to launch) it yields a failure and no
\* output, and neither query returns a result.
C17_OutputIffCleanExit ==
    returned.by # "none" =>
        /\ returned.by = "stdout_check_errors" =>
               /\ returned.result.ok <=> CleanExit
               /\ returned.result.ok => returned.result.val = output.stdout
        /\ ~CleanExit =>
               /\ ~returned.result.ok
               /\ "val" \notin DOMAIN returned.result

\* a process that printed two entries and ended with status 1 made the list
\* query fail
C17_Witness ==
    /\ returned.by = "query_timeless"
    /\ output.launched
    /\ output.status = Some(1)
    /\ output.stderr = <<>>
    /\ Len(OutputLines) = 2
    /\ take_limit >= 1
    /\ ~returned.result.ok

-----------------------------------------------------------------------------
(* The selector, continued *)

\* a pass was made over the current target ranks
PassMade == pc \in {"AwaitingCommand", "AwaitingCustomRanks", "ParsingCustomRanks", "Count", "Write"}

\* the record of the pass that was given choice number j
ChoiceRecord(j) == pass[CHOOSE k \in 1..Len(pass) : pass[k].choice = j]

\* C14: in a pass every target is handled once, in order; a target for which the
\* finder returns no transition is reported as out of range and gets no choice
\* and no transition; the choices 1..k go to the transitions found, in the
\* order presented. For a list of 35 entries whose only date change lies at a
\* pair index >= 30 the default targets give one transition, for 30, and
\* choice 1 returns its included entry.
C14_OutOfRangeGetsNoChoice ==
    /\ [](PassMade =>
            /\ Len(pass) = Len(target_counts)
            /\ \A k \in 1..Len(pass) :
                   /\ pass[k].target = target_counts[k]
                   /\ find_transition(entries, pass[k].target) = None =>
                          /\ pass[k].printed = "out of range"
                          /\ pass[k].choice = 0
                          /\ pass[k].transition = None
                   /\ pass[k].choice # 0 <=> pass[k].printed = "Breakpoint"
            /\ {pass[k].choice : k \in 1..Len(pass)} \ {0} = 1..Len(transitions)
            /\ \A j \in 1..Len(transitions) :
                   /\ ChoiceRecord(j).transition = Some(transitions[j])
                   /\ \A i \in 1..(j - 1) : transitions[i].index < transitions[j].index
            /\ (entries \in LongLists /\ target_counts = TARGET_COUNTS) =>
                   /\ Len(transitions) = 1
                   /\ [k \in 1..3 |-> pass[k].printed]
                          = <<"Breakpoint", "out of range", "out of range">>
                   /\ transitions[1].index >= 30)
    /\ [][\A t \in TypedCommands :
              (/\ t.kind = "number"
               /\ t.n = 1
               /\ entries \in LongLists
               /\ target_counts = TARGET_COUNTS
               /\ HandleCommand(RawLine(t.text))) =>
                  /\ pc' = "Count"
                  /\ date_entry' = Some(entries[transitions[1].index + 1])
                  /\ date_entry'.val.date # entries[SampleLen].date]_vars

\* choice 1 was entered for a long list with the default targets
C14_Witness ==
    /\ pc = "Count"
    /\ entries \in LongLists
    /\ target_counts = TARGET_COUNTS
    /\ pass[2].printed = "out of range"
    /\ date_entry = Some(transitions[1].included)

\* a query returned an error
QueryFailed == \E i \in 1..Len(query_results) : ~query_results[i].ok

\* the entry the user picked is the included entry of a transition presented
PickedTransition ==
    /\ date_entry.some
    /\ \E j \in 1..Len(transitions) : transitions[j].included = date_entry.val

\* C15: the JSON store is written only after the entry fetch succeeded, the user
\* picked a transition and the count query succeeded; in every run in which
\* fetching or counting fails nothing is written and the program ends with a
\* failure.
C15_WriteOnlyAfterSuccess ==
    /\ QueryFailed =>
           /\ written = <<>>
           /\ pc = "Exited"
           /\ exit_status.some
           /\ ~exit_status.val.ok
    /\ (pc = "Write" \/ written # <<>>) =>
           /\ Len(query_results) = 2
           /\ query_results[1] = Ok(entries)
           /\ query_results[2].ok
           /\ PickedTransition
           /\ written \in {<<>>, <<date_entry.val.date>>}

\* the count query failed in a run that was given a JSON store
C15_Witness ==
    /\ pc = "Exited"
    /\ output_file_key = [file |-> TRUE, key |-> TRUE]
    /\ Len(query_results) = 2
    /\ ~query_results[2].ok
    /\ PickedTransition
    /\ written = <<>>

\* C18: an empty line at the selection prompt changes nothing: the target ranks,
\* the pass and its transitions stay as they are, nothing is recomputed or
\* selected, and the selector prompts for a command again.
C18_EmptyLineChangesNothing ==
    [][\A t \in TypedCommands :
           (t.kind = "empty" /\ HandleCommand(RawLine(t.text))) =>
               /\ pc' = "AwaitingCommand"
               /\ notice' = NoNotice
               /\ UNCHANGED <<target_counts, pass, transitions, entries, date_entry,
                              issued, query_results, written, exit_status>>]_vars

\* an empty line was the last line handled, after custom ranks that gave transitions
C18_Witness ==
    /\ pc = "AwaitingCommand"
    /\ command = Some(Empty)
    /\ transitions # <<>>
    /\ target_counts # TARGET_COUNTS

\* C19 as stated: in every pass the targets are processed in ascending order of
\* rank, whatever order they were typed in.
C19_AscendingOrder ==
    PassMade =>
        \A k \in 1..(Len(pass) - 1) : pass[k].target <= pass[k + 1].target

IsListQuery(args) ==
    Len(args) >= 3 /\ SubSeq(args, Len(args) - 2, Len(args)) = <<ADDED_DESC, FORMAT, FORMAT_ADDED>>
IsCountQuery(args) ==
    Len(args) >= 2 /\ SubSeq(args, Len(args) - 1, Len(args)) = <<FORMAT, FORMAT_ID>>

\* C20: the entry list is fetched once, before the selector starts; the selector
\* and the finder never change it and never fetch again, every pass is computed
\* from that list; the count query runs at most once and only after a
\* transition was picked.
C20_FetchedOnce ==
    /\ [](/\ Cardinality({i \in 1..Len(issued) : IsListQuery(issued[i])}) <= 1
          /\ Cardinality({i \in 1..Len(issued) : IsCountQuery(issued[i])}) <= 1
          /\ pc \in SelectorStates =>
                 /\ Len(issued) = 1
                 /\ IsListQuery(issued[1])
                 /\ query_results = <<Ok(entries)>>
          /\ PassMade => pass = filter_map(query_results[1].val, target_counts, 1, None, 1)
          /\ \A i \in 1..Len(issued) :
                 IsCountQuery(issued[i]) =>
                     /\ i = 2
                     /\ IsListQuery(issued[1])
                     /\ PickedTransition)
    /\ [][/\ pc # "Query" => entries' = entries
          /\ pc \in SelectorStates => issued' = issued]_vars

\* a run with a custom-rank entry and a second pass ended after one fetch and
\* one count
C20_Witness ==
    /\ pc = "Exited"
    /\ Len(issued) = 2
    /\ IsCountQuery(issued[2])
    /\ target_counts # TARGET_COUNTS
    /\ Len(transitions) >= 2

\* the step leaves the selector
SelectorEnds == pc \in SelectorStates /\ pc' \notin SelectorStates

\* C21 as stated: the selector ends only by a quit command or by a valid numeric
\* pick, and an empty line, an out-of-range number or a rejected custom-rank
\* entry never ends it.
C21_EndsOnlyByQuitOrPick ==
    /\ [][SelectorEnds =>
              \E t \in TypedCommands :
                  /\ HandleCommand(RawLine(t.text))
                  /\ \/ t.kind = "quit"
                     \/ t.kind = "number" /\ t.n \in 1..Len(transitions)]_vars
    /\ [][\A t \in TypedCommands :
              (/\ \/ t.kind = "empty"
                  \/ t.kind = "number" /\ t.n > Len(transitions)
               /\ HandleCommand(RawLine(t.text))) => ~SelectorEnds]_vars
    /\ [][(pc = "ParsingCustomRanks" /\ ~AllTokensValid(typed.val)) => ~SelectorEnds]_vars


-----------------------------------------------------------------------------
(* One evaluation pass over any entry list and any target-rank list *)

PassLists ==
    UNION {[1..n -> {DateEntry(d, TEXT) : d \in FindDates}] : n \in 0..MaxItems}

\* target ranks in any order, duplicates included
PassTargets == UNION {[1..n -> 0..MaxTarget] : n \in 0..MaxTargets}

\* select_end at the top of its loop (main.rs:144), the entry list fetched
InitPass ==
    /\ pc = "Evaluating"
    /\ timeless_args = <<"a", "\n", "b", ",", "c">>
    /\ max_entries = 400
    /\ output_file_key = [file |-> FALSE, key |-> FALSE]
    /\ beets = Some(BeetCommand_new(timeless_args))
    /\ entries \in PassLists
    /\ target_counts \in PassTargets
    /\ pass = <<>>
    /\ transitions = <<>>
    /\ date_entry = None
    /\ issued = <<new_list_command(beets.val.val, None).args
                      \o <<ADDED_DESC, FORMAT, FORMAT_ADDED>> >>
    /\ query_results = <<Ok(entries)>>
    /\ written = <<>>
    /\ notice = NoNotice
    /\ target_str = None
    /\ typed = None
    /\ command = None
    /\ exit_status = None
    /\ IdleFind
    /\ IdleFilter
    /\ IdleParse
    /\ IdleQuery

NextPass == Evaluate

SpecPass == InitPass /\ [][NextPass]_vars

\* the transitions the pass printed as "Breakpoint", in the order printed
Presented == SelectSeq(pass, IsBreakpoint)

\* C22: whatever the entry list and the target ranks (any order, duplicates
\* allowed), the transitions one pass presents have strictly increasing ranks in
\* presentation order, so none is offered twice and there are never more choices
\* than target ranks.
C22_PresentedRanksIncrease ==
    pc = "AwaitingCommand" =>
        /\ \A i, j \in 1..Len(Presented) :
               i < j => rank(Presented[i].transition.val) < rank(Presented[j].transition.val)
        /\ \A i, j \in 1..Len(transitions) :
               i < j => /\ rank(transitions[i]) < rank(transitions[j])
                        /\ transitions[i] # transitions[j]
        /\ Len(Presented) = Len(transitions)
        /\ Len(transitions) <= Len(target_counts)

\* a pass over unordered targets with a duplicate, some skipped, two presented
C22_Witness ==
    /\ pc = "AwaitingCommand"
    /\ Len(transitions) = 2
    /\ Len(target_counts) = 3
    /\ \E i \in 1..2 : target_counts[i] > target_counts[i + 1]
    /\ \E i, j \in 1..3 : i # j /\ target_counts[i] = target_counts[j]


\* the transitions of a pass made now, from the current target ranks
CurrentPass == collect_transitions(filter_map(entries, target_counts, 1, None, 1))

\* position i of the fetched list holds an entry whose successor has another date
DateChangesAfter(i) ==
    /\ i \in 1..(Len(entries) - 1)
    /\ entries[i].date # entries[i + 1].date

\* C23: after any sequence of commands, the entry the selector returns is the
\* included entry of a transition of the most recent pass, made from the current
\* target ranks and not from earlier ones, and it is an element of the fetched
\* entry list whose successor in the list has a different date.
C23_ReturnedEntryIsCurrent ==
    /\ [](date_entry.some =>
              /\ transitions = CurrentPass
              /\ \E j \in 1..Len(CurrentPass) :
                     /\ CurrentPass[j].included = date_entry.val
                     /\ \E k \in 1..Len(target_counts) :
                            find_transition(entries, target_counts[k]) = Some(CurrentPass[j])
                     /\ DateChangesAfter(CurrentPass[j].index + 1)
                     /\ entries[CurrentPass[j].index + 1] = date_entry.val)
    /\ [][\A t \in TypedCommands :
              (/\ t.kind = "number"
               /\ t.n \in 1..Len(transitions)
               /\ HandleCommand(RawLine(t.text)))
              => /\ t.n \in 1..Len(CurrentPass)
                 /\ date_entry' = Some(entries[CurrentPass[t.n].index + 1])
                 /\ DateChangesAfter(CurrentPass[t.n].index + 1)]_vars

\* an entry picked under custom target ranks, while the list holds another
\* transition that a pass with other ranks presents
C23_Witness ==
    /\ pc = "Count"
    /\ date_entry.some
    /\ target_counts # TARGET_COUNTS
    /\ \E target \in 0..Len(entries) :
           /\ find_transition(entries, target).some
           /\ find_transition(entries, target).val.included # date_entry.val


\* the custom-rank entry being parsed is accepted
CustomAccepted == pc = "ParsingCustomRanks" /\ pc' = "Evaluating"

\* record k of the pass is a skip, and a transition accepted earlier in the same
\* pass accounts for it
SkipHasCause(log, k) ==
    log[k].printed = "skipping target" =>
        \E i \in 1..(k - 1) :
            /\ log[i].printed = "Breakpoint"
            /\ log[i].transition.val.index >= log[k].target

\* C24: an accepted custom-rank entry replaces the whole target-rank list (no
\* rank of the list before stays, and an empty entry gives an empty list with no
\* choices), and each pass starts with no previously accepted transition, so the
\* presented transitions are a function of the entry list and the current
\* target-rank list alone, whatever passes were made before.
C24_PassDependsOnCurrentRanksOnly ==
    /\ [][CustomAccepted =>
              /\ Len(target_counts') = Len(typed.val)
              /\ \A i \in 1..Len(typed.val) : target_counts'[i] = typed.val[i].value
              /\ typed.val = <<>> => target_counts' = <<>>
              /\ transitions' = <<>>]_vars
    /\ [][pc = "Evaluating" =>
              /\ \A k \in 1..Len(pass') : SkipHasCause(pass', k)
              /\ transitions' = CurrentPass
              /\ target_counts = <<>> => transitions' = <<>>]_vars
    /\ [](PassMade =>
              /\ transitions = CurrentPass
              /\ \A k \in 1..Len(pass) : SkipHasCause(pass, k)
              /\ target_counts = <<>> => Len(transitions) = 0)

\* an empty custom entry replaced the three default ranks: the list has a
\* transition and the pass offers no choice
C24_Witness ==
    /\ pc = "AwaitingCommand"
    /\ target_counts = <<>>
    /\ pass = <<>>
    /\ transitions = <<>>
    /\ find_transition(entries, 0).some

=============================================================================
